---- MODULE Spec2Model ----
(***************************************************************************)
(* dbrowser: two keyboard-driven browser shells, browser.py (GTK/WebKit2)  *)
(* and qtbrowser.py (Qt/WebEngine).  The model covers the key dispatch     *)
(* chain on_key of both shells, the one-shot completion callbacks of the   *)
(* asynchronous engine calls, the deferred first navigation of qtbrowser   *)
(* and the start-up code that reads the environment.                       *)
(*                                                                         *)
(* Python strings are sequences of one-character strings.  The zoom level  *)
(* is kept in tenths (10 is the engine's 1.0).                             *)
(***************************************************************************)
EXTENDS Integers, Sequences, FiniteSets, Bags, TLC

(***************************************************************************)
(* Bounds of the model.                                                    *)
(***************************************************************************)
\* zoom steps of 0.1 followed away from 1.0 in either direction
MaxZoomSteps == 1
\* asynchronous engine requests in flight at one time
MaxPending == 1

(***************************************************************************)
(* Text.                                                                   *)
(***************************************************************************)
\* Python's None, the value of Gtk.Clipboard.wait_for_text() when the
\* clipboard holds no text: a one-element sequence that is no sequence of
\* characters, so it differs from every text.
PyNone == <<"None">>

Whitespace == {" ", "\n", "\t"}

RECURSIVE LStrip(_)
LStrip(s) ==
    IF s # <<>> /\ Head(s) \in Whitespace THEN LStrip(Tail(s)) ELSE s

RECURSIVE RStrip(_)
RStrip(s) ==
    IF s # <<>> /\ s[Len(s)] \in Whitespace
    THEN RStrip(SubSeq(s, 1, Len(s) - 1))
    ELSE s

\* str.strip()
Strip(s) == RStrip(LStrip(s))

\* str.startswith(p)
StartsWith(s, p) == Len(s) >= Len(p) /\ SubSeq(s, 1, Len(p)) = p

\* bool(x) for a string or None
Truthy(x) == x # PyNone /\ x # <<>>

UrlPrefixes ==
    { <<"h","t","t","p",":","/","/">>,
      <<"h","t","t","p","s",":","/","/">>,
      <<"f","t","p",":","/","/">>,
      <<"f","i","l","e",":","/","/">> }

is_valid_url_http_only(text) ==
    IF ~Truthy(text) THEN FALSE
    ELSE StartsWith(text, <<"h","t","t","p">>)

is_valid_url(text) ==
    IF ~Truthy(text) THEN FALSE
    ELSE \E p \in UrlPrefixes : StartsWith(text, p)

(***************************************************************************)
(* What the helper processes and the clipboard can hand back.              *)
(***************************************************************************)
U_http  == <<"h","t","t","p",":","/","/","a">>
U_https == <<"h","t","t","p","s",":","/","/","a">>
U_ftp   == <<"f","t","p",":","/","/","a">>
U_file  == <<"f","i","l","e",":","/","/","a">>
U_near  == <<"h","t","t","p",":","/","a">>
T_word  == <<"a">>

\* stdout of `tmux show-buffer`
TmuxOutputs == { <<>>, U_http \o <<"\n">>, <<" ">> \o U_ftp, U_near \o <<"\n">> }

\* text of the clipboard
ClipboardTexts == { <<>>, U_https, U_file, <<" ">> \o U_http }

\* stdout of dmenu: empty when the prompt is cancelled
DmenuOutputs == { <<>>, <<" ", "\n">>, T_word \o <<"\n">>, <<" ">> \o U_http \o <<"\n">> }

\* sys.argv[1]
StartUrl == U_http

\* every address the view can be given: the start URL, the texts of the
\* tmux buffer and the clipboard that pass is_valid_url, and whatever dmenu
\* hands back
Addresses ==
    {StartUrl}
    \cup { t \in { Strip(o) : o \in TmuxOutputs } \cup ClipboardTexts : is_valid_url(t) }
    \cup ({ Strip(o) : o \in DmenuOutputs } \ {<<>>})

(***************************************************************************)
(* Key events.                                                             *)
(***************************************************************************)
\* Gdk.ModifierType.CONTROL_MASK, SHIFT_MASK, MOD1_MASK and
\* Qt.KeyboardModifier.ControlModifier, ShiftModifier, AltModifier
Mods == {"ctrl", "shift", "alt"}

\* Gdk key values: a letter's lower-case and upper-case key values differ
GdkKeys ==
    { "F1", "F5", "F12", "q", "r", "p", "P", "s", "S", "c", "C", "g", "G", "l",
      "b", "h", "j", "k", "u", "U", "i", "f", "n", "N", "Left", "Right",
      "comma", "period", "plus", "equal", "minus", "0", "x" }

\* Qt.Key values: one per letter, whatever the shift state
QtKeys ==
    { "F1", "F5", "F12", "Q", "R", "P", "S", "C", "G", "L", "B", "H", "J", "K",
      "U", "I", "F", "N", "Left", "Right", "Comma", "Period", "Plus", "Equal",
      "Minus", "0", "X" }

GdkEvents == [key : GdkKeys, mods : SUBSET Mods]
QtEvents  == [key : QtKeys, mods : SUBSET Mods]

\* e.state & MASK
Has(e, m) == m \in e.mods
\* e.state & (CONTROL_MASK | SHIFT_MASK)
HasAny(e, ms) == e.mods \cap ms # {}

(***************************************************************************)
(* State.                                                                  *)
(***************************************************************************)
VARIABLES
    shell,        \* "gtk": browser.py, "qt": qtbrowser.py
    running,      \* the event loop runs (Gtk.main / app.exec)
    shown,        \* the window has been shown
    find_text,    \* find_text[0]
    find_ctl,     \* the search text held by WebKit2's find controller
    uri,          \* the address of the last navigation the view was given
    zoom,         \* the view's zoom level, in tenths
    reqs,         \* asynchronous engine requests in flight (a bag)
    pending_url,  \* qtbrowser: _pending_url[0]
    has_loaded,   \* qtbrowser: _has_loaded[0]
    timer_on,     \* qtbrowser: poll_timer is active
    nav_started,  \* history: some navigation has been started
    last,         \* what the handler that ran last did
    changed,      \* history: the variables the handler that ran last changed
    boot,         \* the start-up code: its position, inputs and results
    page_title,   \* the engine's title of the page (web.get_title / web.title)
    progress,     \* the load progress the engine reported last, in percent;
                  \* 100 while qtbrowser.py has been told of no load
    win_title     \* the title of the window

vars ==
    << shell, running, shown, find_text, find_ctl, uri, zoom, reqs, pending_url,
       has_loaded, timer_on, nav_started, last, changed, boot, page_title,
       progress, win_title >>

titlevars == << page_title, progress, win_title >>

qtvars == << pending_url, has_loaded, timer_on >>

\* The variables whose value in the next state differs from the present
\* one: conjoined after a handler's assignments, it records their effect.
Delta ==
    (IF uri' # uri THEN {"uri"} ELSE {})
    \cup (IF zoom' # zoom THEN {"zoom"} ELSE {})
    \cup (IF find_text' # find_text THEN {"find_text"} ELSE {})
    \cup (IF find_ctl' # find_ctl THEN {"find_ctl"} ELSE {})
    \cup (IF reqs' # reqs THEN {"reqs"} ELSE {})
    \cup (IF pending_url' # pending_url THEN {"pending_url"} ELSE {})
    \cup (IF has_loaded' # has_loaded THEN {"has_loaded"} ELSE {})
    \cup (IF timer_on' # timer_on THEN {"timer_on"} ELSE {})
    \cup (IF running' # running THEN {"running"} ELSE {})

\* no text was read, searched for or loaded by the handler
Nothing == <<"nothing">>

\* The record of a handler run: h names the handler (for on_key, the case
\* that ran), ret is its return value, on the request whose completion ran it.
Ran(h, ret) ==
    [ kind   |-> "key",     \* "key": on_key, "callback", "init"
      h      |-> h,
      ret    |-> ret,
      on     |-> "",
      nofile |-> FALSE,     \* open(links_path) raised FileNotFoundError
      late   |-> FALSE,     \* the load was issued after a navigation had started
      read   |-> Nothing,   \* the text a helper or the clipboard handed back
      load   |-> Nothing,   \* the address given to web.load_uri / web.load
      dmenu  |-> FALSE,     \* dmenu was started
      search |-> Nothing,   \* the text the engine was asked to find
      dest   |-> "",        \* get_save_path was called, for this extension
      wrote  |-> "",        \* the handler wrote this file
      sync   |-> "",        \* engine call that returned its result in the handler
      report |-> "" ]       \* what the handler printed on completion

Handled(h) == Ran(h, "True")

(***************************************************************************)
(* The dispatch chains of on_key: the case that runs for a key event.      *)
(***************************************************************************)
GtkCase(e) ==
    IF e.key = "F1" THEN "help"
    ELSE IF e.key = "q" /\ Has(e, "ctrl") THEN "quit"
    ELSE IF e.key = "F5" \/ (e.key = "r" /\ Has(e, "ctrl")) THEN "reload"
    ELSE IF e.key = "F12" THEN "inspector"
    ELSE IF e.key = "p" /\ Has(e, "ctrl") /\ ~Has(e, "shift") THEN "print"
    ELSE IF e.key = "P" /\ HasAny(e, {"ctrl", "shift"}) THEN "save_pdf"
    ELSE IF e.key = "s" /\ Has(e, "ctrl") /\ ~Has(e, "shift") THEN "save_html"
    ELSE IF e.key = "S" /\ HasAny(e, {"ctrl", "shift"}) THEN "screenshot"
    ELSE IF e.key = "C" /\ HasAny(e, {"ctrl", "shift"}) THEN "copy_text"
    ELSE IF e.key = "g" /\ Has(e, "ctrl") /\ ~Has(e, "shift") THEN "load_tmux"
    ELSE IF e.key = "G" /\ HasAny(e, {"ctrl", "shift"}) THEN "load_clipboard"
    ELSE IF e.key = "l" /\ Has(e, "ctrl") /\ ~Has(e, "shift") THEN "change_url"
    ELSE IF e.key = "b" /\ Has(e, "ctrl") THEN "bookmark"
    ELSE IF e.key = "Left" /\ Has(e, "alt") THEN "back"
    ELSE IF e.key = "Right" /\ Has(e, "alt") THEN "forward"
    ELSE IF e.key = "h" /\ Has(e, "alt") THEN "back"
    ELSE IF e.key = "l" /\ Has(e, "alt") THEN "forward"
    ELSE IF e.key = "j" /\ Has(e, "alt") THEN "scroll_down"
    ELSE IF e.key = "k" /\ Has(e, "alt") THEN "scroll_up"
    ELSE IF e.key = "u" /\ Has(e, "alt") THEN "page_down"
    ELSE IF e.key = "i" /\ Has(e, "alt") THEN "page_up"
    ELSE IF e.key = "comma" /\ Has(e, "alt") THEN "back"
    ELSE IF e.key = "period" /\ Has(e, "alt") THEN "forward"
    ELSE IF e.key = "U" /\ HasAny(e, {"ctrl", "shift"}) THEN "copy_url"
    ELSE IF e.key \in {"plus", "equal"} /\ Has(e, "ctrl") THEN "zoom_in"
    ELSE IF e.key = "minus" /\ Has(e, "ctrl") THEN "zoom_out"
    ELSE IF e.key = "0" /\ Has(e, "ctrl") THEN "zoom_reset"
    ELSE IF e.key = "f" /\ Has(e, "ctrl") THEN "find"
    ELSE IF e.key = "n" /\ Has(e, "ctrl") /\ ~Has(e, "shift") THEN "find_next"
    ELSE IF e.key = "N" /\ Has(e, "ctrl") THEN "find_prev"
    ELSE "none"

QtCase(e) ==
    IF e.key = "F1" THEN "help"
    ELSE IF e.key = "Q" /\ e.mods = {"ctrl"} THEN "quit"
    ELSE IF e.key = "F5" \/ (e.key = "R" /\ e.mods = {"ctrl"}) THEN "reload"
    ELSE IF e.key = "F12" THEN "inspector"
    ELSE IF e.key = "P" /\ e.mods = {"ctrl"} THEN "print"
    ELSE IF e.key = "P" /\ e.mods = {"ctrl", "shift"} THEN "save_pdf"
    ELSE IF e.key = "S" /\ e.mods = {"ctrl"} THEN "save_html"
    ELSE IF e.key = "S" /\ e.mods = {"ctrl", "shift"} THEN "screenshot"
    ELSE IF e.key = "C" /\ e.mods = {"ctrl", "shift"} THEN "copy_text"
    ELSE IF e.key = "G" /\ e.mods = {"ctrl"} THEN "load_tmux"
    ELSE IF e.key = "G" /\ e.mods = {"ctrl", "shift"} THEN "load_clipboard"
    ELSE IF e.key = "L" /\ e.mods = {"ctrl"} THEN "change_url"
    ELSE IF e.key = "B" /\ e.mods = {"ctrl"} THEN "bookmark"
    ELSE IF e.key = "Left" /\ e.mods = {"alt"} THEN "back"
    ELSE IF e.key = "Right" /\ e.mods = {"alt"} THEN "forward"
    ELSE IF e.key = "H" /\ e.mods = {"alt"} THEN "back"
    ELSE IF e.key = "L" /\ e.mods = {"alt"} THEN "forward"
    ELSE IF e.key = "J" /\ e.mods = {"alt"} THEN "scroll_down"
    ELSE IF e.key = "K" /\ e.mods = {"alt"} THEN "scroll_up"
    ELSE IF e.key = "U" /\ e.mods = {"alt"} THEN "page_down"
    ELSE IF e.key = "I" /\ e.mods = {"alt"} THEN "page_up"
    ELSE IF e.key = "Comma" /\ e.mods = {"alt"} THEN "back"
    ELSE IF e.key = "Period" /\ e.mods = {"alt"} THEN "forward"
    ELSE IF e.key = "U" /\ e.mods = {"ctrl", "shift"} THEN "copy_url"
    ELSE IF e.key \in {"Plus", "Equal"} /\ e.mods = {"ctrl"} THEN "zoom_in"
    ELSE IF e.key = "Minus" /\ e.mods = {"ctrl"} THEN "zoom_out"
    ELSE IF e.key = "0" /\ e.mods = {"ctrl"} THEN "zoom_reset"
    ELSE IF e.key = "F" /\ e.mods = {"ctrl"} THEN "find"
    ELSE IF e.key = "N" /\ e.mods = {"ctrl"} THEN "find_next"
    ELSE IF e.key = "N" /\ e.mods = {"ctrl", "shift"} THEN "find_prev"
    ELSE "none"

(***************************************************************************)
(* The bodies of the cases of on_key.  Each sets last and every variable   *)
(* but those of the deferred first navigation and of the start-up code.    *)
(***************************************************************************)
\* a case that changes nothing the model keeps
OnlyRan(r) ==
    /\ last' = r
    /\ UNCHANGED << running, find_text, find_ctl, uri, zoom, reqs, nav_started >>

\* Gtk.main_quit() / QApplication.quit()
Quit ==
    /\ last' = Handled("quit")
    /\ running' = FALSE
    /\ UNCHANGED << find_text, find_ctl, uri, zoom, reqs, nav_started >>

\* web.run_javascript(code, None, callback, None) / run_js(code, callback):
\* the request r is in flight until the engine completes it
Request(h, r) ==
    /\ BagCardinality(reqs) < MaxPending
    /\ reqs' = reqs (+) SetToBag({r})
    /\ last' = Handled(h)
    /\ UNCHANGED << running, find_text, find_ctl, uri, zoom, nav_started >>

\* web.load_uri(u) / web.load(QUrl(u)) at the end of a case that recorded r
LoadUri(r, u) ==
    /\ uri' = u
    /\ nav_started' = TRUE
    /\ last' = [r EXCEPT !.load = u]
    /\ UNCHANGED << running, find_text, find_ctl, zoom, reqs >>

\* Ctrl+G, Ctrl+Shift+G: if is_valid_url(url_text): load, else: print
LoadIfValid(h, url_text) ==
    LET r == [Handled(h) EXCEPT !.read = url_text] IN
    IF is_valid_url(url_text) THEN LoadUri(r, url_text) ELSE OnlyRan(r)

\* Ctrl+L and the tail of Ctrl+B: dmenu, strip, load when non-empty; r0 is
\* the record of the case so far
DmenuLoad(r0) ==
    \E out \in DmenuOutputs :
        LET new_url == Strip(out)
            r == [r0 EXCEPT !.read = new_url, !.dmenu = TRUE]
        IN  IF Truthy(new_url) THEN LoadUri(r, new_url) ELSE OnlyRan(r)

BookmarkNoAbort(h) ==
    \E file_exists \in BOOLEAN :
        DmenuLoad([Handled(h) EXCEPT !.nofile = ~file_exists])

\* Ctrl+B: a bare return when the links file cannot be opened

Bookmark(h) ==
    \E file_exists \in BOOLEAN :
        IF ~file_exists
        THEN OnlyRan([Ran(h, "None") EXCEPT !.nofile = TRUE])
        ELSE DmenuLoad(Handled(h))

\* web.go_back() / web.go_forward(): the engine moves in its history, to
\* any address it has shown, or stays when there is none
History(h) ==
    /\ \E u \in (IF nav_started THEN Addresses ELSE {}) \cup {uri} : uri' = u
    /\ last' = Handled(h)
    /\ UNCHANGED << running, find_text, find_ctl, zoom, reqs, nav_started >>

\* web.set_zoom_level(z) / web.setZoomFactor(z), z in tenths
SetZoom(h, z) ==
    /\ z \in (10 - MaxZoomSteps) .. (10 + MaxZoomSteps)
    /\ zoom' = z
    /\ last' = Handled(h)
    /\ UNCHANGED << running, find_text, find_ctl, uri, reqs, nav_started >>

ZoomResetKeep(h) == SetZoom(h, zoom)

ZoomReset(h) == SetZoom(h, 10)

\* Ctrl+F: dmenu, strip; when non-empty the slot is replaced and the engine
\* searches.  browser.py's find.search leaves the text with the controller.
FindAlways(h) ==
    \E out \in DmenuOutputs :
        LET search == Strip(out) IN
        /\ find_text' = search
        /\ find_ctl' = IF shell = "gtk" THEN search ELSE find_ctl
        /\ last' = [Handled(h) EXCEPT !.read = search, !.dmenu = TRUE,
                                      !.search = search]
        /\ UNCHANGED << running, uri, zoom, reqs, nav_started >>

Find(h) ==
    \E out \in DmenuOutputs :
        LET search == Strip(out)
            r == [Handled(h) EXCEPT !.read = search, !.dmenu = TRUE]
        IN  IF Truthy(search)
            THEN /\ find_text' = search
                 /\ find_ctl' = IF shell = "gtk" THEN search ELSE find_ctl
                 /\ last' = [r EXCEPT !.search = search]
                 /\ UNCHANGED << running, uri, zoom, reqs, nav_started >>
            ELSE OnlyRan(r)

\* browser.py: find.search_next() / find.search_previous() search for the
\* text the controller holds
GtkFindAgain(h) == OnlyRan([Handled(h) EXCEPT !.search = find_ctl])

QtFindAgainUnhandled(h) ==
    IF Truthy(find_text)
    THEN OnlyRan([Handled(h) EXCEPT !.search = find_text])
    ELSE OnlyRan(Ran(h, "False"))

\* qtbrowser.py: if find_text[0]: page.findText(find_text[0], ...)
QtFindAgain(h) ==
    IF Truthy(find_text)
    THEN OnlyRan([Handled(h) EXCEPT !.search = find_text])
    ELSE OnlyRan(Handled(h))

\* the cases whose bodies are the same in both shells
CommonBody(c) ==
    CASE c = "help"           -> OnlyRan(Handled(c))
      [] c = "quit"           -> Quit
      [] c = "reload"         -> OnlyRan(Handled(c))
      [] c = "inspector"      -> OnlyRan(Handled(c))
      [] c = "print"          -> OnlyRan(Handled(c))
      [] c = "save_html"      -> Request(c, "html_title")
      [] c = "screenshot"     -> Request(c, "png_title")
      [] c = "copy_text"      -> Request(c, "copy_text")
      [] c = "load_tmux"      -> \E out \in TmuxOutputs : LoadIfValid(c, Strip(out))
      [] c = "change_url"     -> DmenuLoad(Handled(c))
      [] c = "bookmark"       -> Bookmark(c)
      [] c = "back"           -> History(c)
      [] c = "forward"        -> History(c)
      [] c = "scroll_down"    -> OnlyRan(Handled(c))
      [] c = "scroll_up"      -> OnlyRan(Handled(c))
      [] c = "page_down"      -> OnlyRan(Handled(c))
      [] c = "page_up"        -> OnlyRan(Handled(c))
      [] c = "copy_url"       -> OnlyRan(Handled(c))
      [] c = "zoom_in"        -> SetZoom(c, zoom + 1)
      [] c = "zoom_out"       -> SetZoom(c, zoom - 1)
      [] c = "zoom_reset"     -> ZoomReset(c)
      [] c = "find"           -> Find(c)
      [] c = "none"           -> OnlyRan(Ran(c, "False"))

GtkBody(c) ==
    CASE c = "save_pdf"       -> Request(c, "pdf_title")
      [] c = "load_clipboard" ->
            \E t \in ClipboardTexts \cup {PyNone} : LoadIfValid(c, t)
      [] c = "find_next"      -> GtkFindAgain(c)
      [] c = "find_prev"      -> GtkFindAgain(c)
      [] OTHER                -> CommonBody(c)

QtBody(c) ==
    CASE c = "save_pdf"       -> OnlyRan([Handled(c) EXCEPT !.dest = "pdf"])
      [] c = "load_clipboard" -> \E t \in ClipboardTexts : LoadIfValid(c, t)
      [] c = "find_next"      -> QtFindAgain(c)
      [] c = "find_prev"      -> QtFindAgain(c)
      [] OTHER                -> CommonBody(c)

(***************************************************************************)
(* on_key.                                                                 *)
(***************************************************************************)
\* browser.py: the case c of on_key runs
GtkRun(c) ==
    /\ shell = "gtk" /\ running /\ shown
    /\ GtkBody(c)
    /\ UNCHANGED << shell, shown, boot >> /\ UNCHANGED qtvars
    /\ changed' = Delta
    /\ UNCHANGED titlevars

\* browser.py: the key-press-event handler of the window
GtkOnKey(e) == GtkRun(GtkCase(e))

\* qtbrowser.py: the case c of on_key runs
QtRun(c) ==
    /\ shell = "qt" /\ running /\ shown
    /\ QtBody(c)
    /\ UNCHANGED << shell, shown, boot >> /\ UNCHANGED qtvars
    /\ changed' = Delta
    /\ UNCHANGED titlevars

\* qtbrowser.py: KeyFilter.eventFilter calls on_key for every KeyPress
QtOnKey(e) == QtRun(QtCase(e))

\* The cases the key events select.  A key event acts on the state only
\* through the case it selects, so the event loop draws its key events by
\* their case: \E e \in GdkEvents : GtkOnKey(e) is
\* \E c \in GtkCases : GtkRun(c).
GtkCases == { GtkCase(e) : e \in GdkEvents }
QtCases  == { QtCase(e) : e \in QtEvents }

(***************************************************************************)
(* The one-shot completion callbacks.  The engine completes a request in   *)
(* flight, in any order, and runs the callback given with it.              *)
(***************************************************************************)
\* a callback that issues no further request
Finish(r, rec) ==
    /\ reqs' = reqs (-) SetToBag({r})
    /\ last' = [rec EXCEPT !.on = r]

\* a callback that ends by issuing the request next
Chain(r, rec, next) ==
    /\ reqs' = (reqs (-) SetToBag({r})) (+) SetToBag({next})
    /\ last' = [rec EXCEPT !.on = r]

Callback(h) == [Ran(h, "None") EXCEPT !.kind = "callback"]

\* browser.py: on_title of Ctrl+Shift+P (print_op.print_() has no callback),
\* on_title and on_save_finished of Ctrl+S, on_title and
\* on_snapshot_finished of Ctrl+Shift+S, copy_text of Ctrl+Shift+C
GtkCallback(r) ==
    CASE r = "pdf_title" ->
            Finish(r, [Callback("on_title") EXCEPT !.dest = "pdf",
                                                   !.report = "Saving PDF to"])
      [] r = "html_title" ->
            Chain(r, [Callback("on_title") EXCEPT !.dest = "html"], "html_save")
      [] r = "html_save" ->
            Finish(r, [Callback("on_save_finished") EXCEPT !.wrote = "html",
                                                           !.report = "Saved HTML"])
      [] r = "png_title" ->
            Chain(r, [Callback("on_title") EXCEPT !.dest = "png"], "png_snapshot")
      [] r = "png_snapshot" ->
            Finish(r, [Callback("on_snapshot_finished") EXCEPT
                          !.wrote = "png", !.report = "Saved screenshot"])
      [] r = "copy_text" ->
            Finish(r, [Callback("copy_text") EXCEPT !.report = "Copied"])

\* qtbrowser.py: save_html of Ctrl+S (page.save returns at once and the
\* engine writes the file later), save_screenshot of Ctrl+Shift+S (web.grab
\* returns the pixmap), copy_text of Ctrl+Shift+C; the completion of
\* page.save runs no code of qtbrowser.py
QtCallback(r) ==
    CASE r = "html_title" ->
            Chain(r, [Callback("save_html") EXCEPT !.dest = "html",
                                                   !.report = "Saved HTML"],
                  "html_save")
      [] r = "html_save" ->
            Finish(r, Callback("page.save done"))
      [] r = "png_title" ->
            Finish(r, [Callback("save_screenshot") EXCEPT
                          !.dest = "png", !.sync = "grab", !.wrote = "png",
                          !.report = "Saved screenshot"])
      [] r = "copy_text" ->
            \E has_text \in BOOLEAN :
                Finish(r, [Callback("copy_text") EXCEPT
                              !.report = IF has_text THEN "Copied" ELSE ""])

Complete(r) ==
    /\ running /\ shown
    /\ BagIn(r, reqs)
    /\ IF shell = "gtk" THEN GtkCallback(r) ELSE QtCallback(r)
    /\ UNCHANGED << shell, running, shown, find_text, find_ctl, uri, zoom,
                    nav_started, boot >>
    /\ UNCHANGED qtvars
    /\ changed' = Delta
    /\ UNCHANGED titlevars

(***************************************************************************)
(* qtbrowser.py: the deferred first navigation.                            *)
(***************************************************************************)
\* BrowserView.showEvent, first run by win.show()
ShowEvent ==
    /\ shell = "qt" /\ running
    /\ shown' = TRUE
    /\ pending_url' = IF Truthy(StartUrl) THEN StartUrl ELSE pending_url
    /\ last' = Callback("showEvent")
    /\ UNCHANGED << shell, running, find_text, find_ctl, uri, zoom, reqs,
                    has_loaded, timer_on, nav_started, boot >>
    /\ changed' = Delta
    /\ UNCHANGED titlevars

\* try_load_url, run by poll_timer every 500 ms while the timer is active;
\* is_loading is what page.isLoading() answers after web.load
try_load_url ==
    /\ shell = "qt" /\ running /\ shown /\ timer_on
    /\ IF Truthy(pending_url) /\ ~has_loaded
       THEN \E is_loading \in BOOLEAN :
                /\ last' = [Callback("try_load_url") EXCEPT
                               !.load = pending_url, !.late = nav_started]
                /\ IF is_loading
                   THEN /\ uri' = pending_url
                        /\ nav_started' = TRUE
                        /\ has_loaded' = TRUE
                        /\ pending_url' = PyNone
                        /\ timer_on' = FALSE
                   ELSE UNCHANGED << uri, nav_started, has_loaded, pending_url,
                                     timer_on >>
       ELSE /\ last' = Callback("try_load_url")
            /\ UNCHANGED << uri, nav_started, has_loaded, pending_url, timer_on >>
    /\ UNCHANGED << shell, running, shown, find_text, find_ctl, zoom, reqs, boot >>
    /\ changed' = Delta
    /\ UNCHANGED titlevars

(***************************************************************************)
(* The window title.                                                       *)
(***************************************************************************)
\* f'{title} - dbrowser ({p}%)' when suffix, else f'{title} - dbrowser'
Titled(t, suffix, p) == [title |-> t, suffix |-> suffix, pct |-> IF suffix THEN p ELSE 0]

\* win.set_title('dbrowser') / win.setWindowTitle('qtbrowser')
AppTitle == [title |-> "(app)", suffix |-> FALSE, pct |-> 0]

\* the titles a page gives itself; "" while it has none
PageTitles == {"", "A", "B"}
\* the load progress the engine reports, in percent
ProgressValues == {0, 30, 60, 90, 100}

\* title or 'Loading...'
OrLoading(t) == IF t = "" THEN "Loading..." ELSE t

\* what a callback of the title leaves alone
TitleKeep ==
    UNCHANGED << shell, running, shown, find_text, find_ctl, uri, zoom, reqs,
                 pending_url, has_loaded, timer_on, nav_started, changed, boot >>

\* browser.py: on_title_changed and on_load_progress have one body: the
\* title and the progress are read from the view
GtkSetTitle == win_title' = Titled(OrLoading(page_title'), progress' < 100, progress')

\* browser.py: notify::title
GtkTitleChanged ==
    /\ shell = "gtk" /\ running /\ shown
    /\ \E t \in PageTitles \ {page_title} : page_title' = t
    /\ progress' = progress
    /\ GtkSetTitle
    /\ last' = Callback("on_title_changed")
    /\ TitleKeep

\* browser.py: notify::estimated-load-progress
GtkLoadProgress ==
    /\ shell = "gtk" /\ running /\ shown
    /\ \E p \in ProgressValues \ {progress} : progress' = p
    /\ page_title' = page_title
    /\ GtkSetTitle
    /\ last' = Callback("on_load_progress")
    /\ TitleKeep

\* qtbrowser.py: update_title(title, progress=None); prog is <<>> for None
update_title(title, prog) ==
    win_title' = IF prog # <<>> /\ prog[1] < 100
                 THEN Titled(title, TRUE, prog[1])
                 ELSE Titled(title, FALSE, 0)

\* qtbrowser.py: loadStarted: a load begins, at 0%, the page without title
on_load_started ==
    /\ shell = "qt" /\ running /\ shown
    /\ progress' = 0
    /\ page_title' = page_title
    /\ update_title("Loading...", <<0>>)
    /\ last' = Callback("on_load_started")
    /\ TitleKeep

\* qtbrowser.py: loadProgress(progress)
on_load_progress ==
    /\ shell = "qt" /\ running /\ shown
    /\ \E p \in ProgressValues : progress' = p
    /\ page_title' = page_title
    /\ update_title(OrLoading(page_title'), <<progress'>>)
    /\ last' = Callback("on_load_progress")
    /\ TitleKeep

\* qtbrowser.py: loadFinished(ok), which the engine sends once the progress
\* has reached 100
on_load_finished ==
    /\ shell = "qt" /\ running /\ shown
    /\ progress = 100
    /\ UNCHANGED << progress, page_title >>
    /\ update_title(IF page_title = "" THEN "Done" ELSE page_title, <<>>)
    /\ last' = Callback("on_load_finished")
    /\ TitleKeep

\* qtbrowser.py: titleChanged(title)
on_title_changed ==
    /\ shell = "qt" /\ running /\ shown
    /\ \E t \in PageTitles \ {page_title} : page_title' = t
    /\ progress' = progress
    /\ update_title(page_title', <<>>)
    /\ last' = Callback("on_title_changed")
    /\ TitleKeep

(***************************************************************************)
(* The event loop.                                                         *)
(***************************************************************************)
\* The state when Gtk.main() / app.exec() is entered.  browser.py has shown
\* its window and called web.load_uri(url); qtbrowser.py has started the
\* poll timer and is about to show its window.
Init ==
    /\ shell \in {"gtk", "qt"}
    /\ running = TRUE
    /\ shown = (shell = "gtk")
    /\ find_text = <<>>
    /\ find_ctl = <<>>
    /\ uri = IF shell = "gtk" THEN StartUrl ELSE <<>>
    /\ zoom = 10
    /\ reqs = EmptyBag
    /\ pending_url = PyNone
    /\ has_loaded = FALSE
    /\ timer_on = (shell = "qt")
    /\ nav_started = (shell = "gtk")
    /\ last = [Ran("init", "None") EXCEPT !.kind = "init"]
    /\ changed = {}
    /\ boot = [pc |-> "mainloop"]
    /\ page_title = ""
    /\ progress = IF shell = "gtk" THEN 0 ELSE 100
    /\ win_title = AppTitle

Next ==
    \/ \E c \in GtkCases : GtkRun(c)
    \/ \E c \in QtCases : QtRun(c)
    \/ \E r \in BagToSet(reqs) : Complete(r)
    \/ ShowEvent
    \/ try_load_url

Spec == Init /\ [][Next]_vars

\* the event loop as the title callbacks see it
TitleNext ==
    \/ GtkTitleChanged
    \/ GtkLoadProgress
    \/ on_load_started
    \/ on_load_progress
    \/ on_load_finished
    \/ on_title_changed
    \/ ShowEvent

SpecTitle == Init /\ [][TitleNext]_vars

(***************************************************************************)
(* Start-up: the module-level code of both files up to the event loop.     *)
(***************************************************************************)
Digits == {"0", "1", "2", "3", "4", "5", "6", "7", "8", "9"}

DigitVal(c) ==
    CASE c = "0" -> 0 [] c = "1" -> 1 [] c = "2" -> 2 [] c = "3" -> 3
      [] c = "4" -> 4 [] c = "5" -> 5 [] c = "6" -> 6 [] c = "7" -> 7
      [] c = "8" -> 8 [] c = "9" -> 9

\* the digits of an int literal, its sign taken off
Unsigned(s) ==
    LET t == Strip(s) IN
    IF t # <<>> /\ Head(t) \in {"+", "-"} THEN Tail(t) ELSE t

\* int(s) returns: s is, between white space, an optional sign and digits,
\* single underscores allowed between digits; otherwise int raises ValueError
int_ok(s) ==
    LET u == Unsigned(s) IN
    /\ u # <<>>
    /\ \A i \in 1..Len(u) : u[i] \in Digits \cup {"_"}
    /\ u[1] # "_" /\ u[Len(u)] # "_"
    /\ \A i \in 1..(Len(u) - 1) : ~(u[i] = "_" /\ u[i + 1] = "_")

RECURSIVE NatVal(_)
NatVal(u) ==
    IF u = <<>> THEN 0
    ELSE IF u[Len(u)] = "_" THEN NatVal(SubSeq(u, 1, Len(u) - 1))
    ELSE 10 * NatVal(SubSeq(u, 1, Len(u) - 1)) + DigitVal(u[Len(u)])

\* int(s) where int_ok(s)
int_val(s) ==
    LET t == Strip(s) IN
    IF t # <<>> /\ Head(t) = "-" THEN 0 - NatVal(Unsigned(s)) ELSE NatVal(Unsigned(s))

\* s.split('x')
RECURSIVE SplitX(_)
SplitX(s) ==
    IF \E i \in 1..Len(s) : s[i] = "x"
    THEN LET i == CHOOSE k \in 1..Len(s) :
                      s[k] = "x" /\ \A j \in 1..(k - 1) : s[j] # "x"
         IN  <<SubSeq(s, 1, i - 1)>> \o SplitX(SubSeq(s, i + 1, Len(s)))
    ELSE <<s>>

\* w, h = map(int, size.split('x')) does not raise ValueError
size_ok(size) ==
    LET parts == SplitX(size) IN
    Len(parts) = 2 /\ int_ok(parts[1]) /\ int_ok(parts[2])

\* the home directory os.path.expanduser puts for a leading ~
Home == <<"/", "h">>

\* os.path.expanduser(path)
expanduser(path) ==
    IF path # <<>> /\ Head(path) = "~" /\ (Len(path) = 1 \/ path[2] = "/")
    THEN Home \o Tail(path)
    ELSE path

\* os.getenv(name): None when the variable is unset
CacheDirValues    == { PyNone, <<>>, <<"/", "c">>, <<"~", "/", "c">> }
MemoryLimitValues == { PyNone, <<>>, <<"2", "5", "6">>, <<"2", "5", "6", "M">>, <<" ", "6", "4">> }
SizeValues ==
    { PyNone, <<"8", "0", "x", "6", "0">>, <<" ", "8", "x", "6", "\n">>, <<>>,
      <<"b", "i", "g">>, <<"8", "0">>, <<"8", "x", "6", "x", "4">>, <<"8", "x">> }
FlagValues == { PyNone, <<>>, <<"1">> }
\* DBROWSER_NO_JS: any non-empty value counts, "0" too
NoJsValues == { PyNone, <<>>, <<"0">> }
\* DBROWSER_FAST, and DBROWSER_NO_IMAGES, DBROWSER_MEDIA, DBROWSER_DRM
SwitchValues == { PyNone, <<"1">> }
\* sys.argv[1], None when sys.argv has one element
ArgValues == { PyNone, <<"-", "h">>, <<"-", "-", "h", "e", "l", "p">>, StartUrl }

\* os.getenv('DBROWSER_SIZE', '800x600')
DefaultSize == <<"8", "0", "0", "x", "6", "0", "0">>

\* the settings of a WebKit2.WebView as the engine hands them out; the
\* code sets the features below the line itself, so their value here is the
\* permissive one
WebKitDefaults ==
    [ javascript |-> TRUE, page_cache |-> TRUE, dns_prefetching |-> FALSE,
      auto_load_images |-> TRUE, offline_cache |-> TRUE,
      html5_database |-> TRUE, local_storage |-> TRUE, min_font |-> 0,
      \* ----
      developer_extras |-> FALSE, mediasource |-> FALSE,
      media_stream |-> FALSE, encrypted_media |-> FALSE,
      hw_accel |-> "", webgl |-> TRUE, plugins |-> TRUE,
      smooth_scrolling |-> TRUE, hyperlink_auditing |-> TRUE,
      file_access |-> TRUE, universal_access |-> TRUE,
      js_clipboard |-> TRUE, js_open_windows |-> TRUE, user_agent |-> "" ]

\* the attributes of a QWebEnginePage's settings qtbrowser.py touches
QtDefaults ==
    [ javascript |-> TRUE, auto_load_images |-> TRUE, webgl |-> TRUE,
      plugins |-> FALSE, insecure_content |-> FALSE, user_agent |-> "" ]

\* no view, so no settings yet
NoSettings == [ view |-> FALSE ]

\* the results of the start-up code, before any of it has run
Unconfigured ==
    [ url |-> Nothing, helped |-> FALSE, ctx |-> "", memory_limit_mb |-> -1,
      disk_cache_dir |-> Nothing, cache_model |-> "", cookies |-> "",
      process_model |-> "", win_size |-> <<>>, view_ctx |-> "",
      settings |-> NoSettings, download_ctx |-> "", exit |-> "" ]

Goto(pc) == boot' = [boot EXCEPT !.pc = pc]

\* what the start-up code leaves of the state of the event loop
Untouched == UNCHANGED << shell, running, shown, find_text, find_ctl, uri, zoom,
                          reqs, pending_url, has_loaded, timer_on, nav_started,
                          last, changed, page_title, progress, win_title >>

\* sys.argv test of both files: help and exit status 0 without an address
ArgvShortOnly ==
    /\ boot.pc = "start"
    /\ IF boot.argv = PyNone \/ boot.argv = <<"-", "h">>
       THEN boot' = [boot EXCEPT !.pc = "exited", !.exit = "0", !.helped = TRUE]
       ELSE boot' = [boot EXCEPT
                !.pc = IF shell = "gtk" THEN "context" ELSE "size",
                !.url = boot.argv]
    /\ Untouched

Argv ==
    /\ boot.pc = "start"
    /\ IF boot.argv = PyNone
          \/ boot.argv \in { <<"-", "h">>, <<"-", "-", "h", "e", "l", "p">> }
       THEN boot' = [boot EXCEPT !.pc = "exited", !.exit = "0", !.helped = TRUE]
       ELSE boot' = [boot EXCEPT
                !.pc = IF shell = "gtk" THEN "context" ELSE "size",
                !.url = boot.argv]
    /\ Untouched

\* browser.py: the context: a context of its own with the memory pressure
\* settings when DBROWSER_MEMORY_LIMIT is set, else the default context
\* with the disk cache directory; then the cache model, the cookie policy
\* and the process model, all on ctx
GtkContext ==
    /\ shell = "gtk" /\ boot.pc = "context"
    /\ boot' = [boot EXCEPT
          !.pc = "window",
          !.ctx = IF Truthy(boot.memory_limit) THEN "custom" ELSE "default",
          !.memory_limit_mb =
              IF Truthy(boot.memory_limit) /\ int_ok(boot.memory_limit)
              THEN int_val(boot.memory_limit) ELSE -1,
          !.disk_cache_dir =
              IF ~Truthy(boot.memory_limit) /\ Truthy(boot.cache_dir)
              THEN expanduser(boot.cache_dir) ELSE Nothing,
          !.cache_model =
              IF Truthy(boot.no_cache) \/ Truthy(boot.low_mem)
              THEN "DOCUMENT_VIEWER" ELSE "",
          !.cookies = "NO_THIRD_PARTY",
          !.process_model =
              IF Truthy(boot.low_mem) THEN "SHARED_SECONDARY_PROCESS" ELSE "" ]
    /\ Untouched

\* the window size of both files: an uncaught ValueError ends the program
ParseSize ==
    LET size == IF boot.size = PyNone THEN DefaultSize ELSE boot.size
        parts == SplitX(size)
    IN  IF size_ok(size)
        THEN boot' = [boot EXCEPT
                 !.pc = IF shell = "gtk" THEN "settings" ELSE "profile",
                 !.win_size = <<int_val(parts[1]), int_val(parts[2])>>]
        ELSE boot' = [boot EXCEPT !.pc = "crashed", !.exit = "ValueError"]

\* browser.py: win = Gtk.Window() and its default size
GtkWindow == shell = "gtk" /\ boot.pc = "window" /\ ParseSize /\ Untouched

\* browser.py: the settings the code fixes for every configuration
GtkFixed(env) ==
    [ WebKitDefaults EXCEPT
        !.developer_extras = TRUE,
        !.mediasource = Truthy(env.enable_media),
        !.media_stream = Truthy(env.enable_media),
        !.encrypted_media = Truthy(env.enable_drm),
        !.hw_accel = "ON_DEMAND",
        !.webgl = FALSE, !.plugins = FALSE,
        !.smooth_scrolling = FALSE, !.hyperlink_auditing = FALSE,
        !.file_access = FALSE, !.universal_access = FALSE,
        !.js_clipboard = FALSE, !.js_open_windows = FALSE ]

GtkNoJsWhenOne(s, env) ==
    IF env.no_js = <<"1">> THEN [s EXCEPT !.javascript = FALSE] ELSE s

\* if no_js:
GtkNoJs(s, env) ==
    IF Truthy(env.no_js) THEN [s EXCEPT !.javascript = FALSE] ELSE s

\* if low_mem:
GtkLowMem(s, env) ==
    IF Truthy(env.low_mem)
    THEN [s EXCEPT !.page_cache = FALSE, !.offline_cache = FALSE,
                   !.html5_database = FALSE, !.local_storage = FALSE,
                   !.min_font = 10]
    ELSE s

\* if fast:
GtkFast(s, env) ==
    IF Truthy(env.fast)
    THEN [s EXCEPT !.dns_prefetching = TRUE, !.page_cache = TRUE]
    ELSE s

\* if enable_webgl:
GtkWebgl(s, env) ==
    IF Truthy(env.enable_webgl)
    THEN [s EXCEPT !.webgl = TRUE, !.hw_accel = "ALWAYS"]
    ELSE s

\* if no_images:
GtkNoImages(s, env) ==
    IF Truthy(env.no_images) THEN [s EXCEPT !.auto_load_images = FALSE] ELSE s

\* browser.py: the settings of the view, statement by statement: the fixed
\* part, then the parts DBROWSER_NO_JS, DBROWSER_LOW_MEM, DBROWSER_FAST,
\* DBROWSER_WEBGL and DBROWSER_NO_IMAGES switch on, in this order
GtkSettingsOf(env) ==
    LET s == GtkNoImages(GtkWebgl(GtkFast(GtkLowMem(GtkNoJs(GtkFixed(env), env),
                                                    env), env), env), env)
    IN  [s EXCEPT !.user_agent = "Mozilla/5.0"]

\* browser.py: web = WebKit2.WebView(), a view in the default context
\* whatever ctx is, and its settings
GtkSettings ==
    /\ shell = "gtk" /\ boot.pc = "settings"
    /\ boot' = [boot EXCEPT !.pc = "connect", !.view_ctx = "default",
                            !.settings = GtkSettingsOf(boot)]
    /\ Untouched

\* browser.py: the window is shown, on_download is connected to the default
\* context, the handlers to the window and the view, and the address is
\* given to the view
GtkConnect ==
    /\ shell = "gtk" /\ boot.pc = "connect"
    /\ boot' = [boot EXCEPT !.pc = "run", !.download_ctx = "default"]
    /\ shown' = TRUE
    /\ uri' = boot.url
    /\ nav_started' = TRUE
    /\ win_title' = AppTitle
    /\ UNCHANGED << shell, running, find_text, find_ctl, zoom, reqs, pending_url,
                    has_loaded, timer_on, last, changed, page_title, progress >>

\* qtbrowser.py: app = QApplication(sys.argv) and the size
QtSize == shell = "qt" /\ boot.pc = "size" /\ ParseSize /\ Untouched

\* qtbrowser.py: the view, and the profile of the view's page
QtProfile ==
    /\ shell = "qt" /\ boot.pc = "profile"
    /\ boot' = [boot EXCEPT
          !.pc = "settings",
          !.ctx = "profile",
          !.view_ctx = "profile",
          !.disk_cache_dir =
              IF Truthy(boot.cache_dir)
              THEN expanduser(boot.cache_dir) ELSE Nothing,
          !.cache_model =
              IF Truthy(boot.no_cache) \/ Truthy(boot.low_mem)
              THEN "NoCache" ELSE "" ]
    /\ Untouched

\* qtbrowser.py: the settings of the page
QtSettingsOf(env) ==
    LET s1 == [ QtDefaults EXCEPT !.plugins = TRUE,
                                  !.javascript = ~Truthy(env.no_js),
                                  !.insecure_content = FALSE ]
        s2 == IF Truthy(env.no_images)
              THEN [s1 EXCEPT !.auto_load_images = FALSE] ELSE s1
        s3 == IF Truthy(env.enable_webgl) THEN [s2 EXCEPT !.webgl = TRUE] ELSE s2
        s4 == IF Truthy(env.low_mem)
              THEN [s3 EXCEPT !.auto_load_images = ~Truthy(env.no_images)]
              ELSE s3
    IN  [s4 EXCEPT !.user_agent = "Mozilla/5.0"]

QtSettings ==
    /\ shell = "qt" /\ boot.pc = "settings"
    /\ boot' = [boot EXCEPT !.pc = "timer", !.settings = QtSettingsOf(boot)]
    /\ Untouched

\* qtbrowser.py: poll_timer.start(500), and handle_download connected to
\* the profile
QtTimer ==
    /\ shell = "qt" /\ boot.pc = "timer"
    /\ boot' = [boot EXCEPT !.pc = "run", !.download_ctx = "profile"]
    /\ timer_on' = TRUE
    /\ UNCHANGED << shell, running, shown, find_text, find_ctl, uri, zoom, reqs,
                    pending_url, has_loaded, nav_started, last, changed >>
    /\ UNCHANGED titlevars

\* Gtk.main() / app.exec() is entered
EnterMainLoop ==
    /\ boot.pc = "run"
    /\ Goto("mainloop")
    /\ running' = TRUE
    /\ win_title' = AppTitle
    /\ UNCHANGED << shell, shown, find_text, find_ctl, uri, zoom, reqs,
                    pending_url, has_loaded, timer_on, nav_started, last, changed,
                    page_title, progress >>

StartupVars ==
    << shell, running, shown, find_text, find_ctl, uri, zoom, reqs, pending_url,
       has_loaded, timer_on, nav_started, last, changed >>

StartupInit ==
    /\ shell \in {"gtk", "qt"}
    /\ running = FALSE
    /\ shown = FALSE
    /\ find_text = <<>>
    /\ find_ctl = <<>>
    /\ uri = <<>>
    /\ zoom = 10
    /\ reqs = EmptyBag
    /\ pending_url = PyNone
    /\ has_loaded = FALSE
    /\ timer_on = FALSE
    /\ nav_started = FALSE
    /\ last = [Ran("init", "None") EXCEPT !.kind = "init"]
    /\ changed = {}
    /\ page_title = ""
    /\ progress = 0
    /\ win_title = [title |-> "", suffix |-> FALSE, pct |-> 0]
    /\ \E a \in ArgValues, cd \in CacheDirValues, ml \in MemoryLimitValues,
          sz \in SizeValues, nc \in FlagValues, lm \in FlagValues,
          nj \in NoJsValues, fa \in SwitchValues, gl \in FlagValues,
          ot \in SwitchValues :
          boot = [ pc |-> "start", argv |-> a, cache_dir |-> cd,
                   memory_limit |-> ml, size |-> sz, no_cache |-> nc,
                   low_mem |-> lm, no_js |-> nj, fast |-> fa,
                   enable_webgl |-> gl, no_images |-> ot,
                   enable_media |-> ot, enable_drm |-> ot ] @@ Unconfigured

StartupNext ==
    \/ Argv
    \/ GtkContext
    \/ GtkWindow
    \/ GtkSettings
    \/ GtkConnect
    \/ QtSize
    \/ QtProfile
    \/ QtSettings
    \/ QtTimer
    \/ EnterMainLoop

SpecStartup == StartupInit /\ [][StartupNext]_vars

(***************************************************************************)
(* Properties.                                                             *)
(***************************************************************************)
KeyRan(st, cases) == st.kind = "key" /\ st.h \in cases

\* C1: for every key event on_key reports the event as handled (returns
\* True) exactly when some case of the chain matched, on every path of
\* every case, and returns False when none matched.
C1_HandledIffMatched ==
    last.kind = "key" =>
        /\ last.h # "none" <=> last.ret = "True"
        /\ last.h = "none" <=> last.ret = "False"

\* the letters of the five Ctrl+Shift bindings, as either shell names them
CtrlShiftLetters == {"p", "P", "s", "S", "c", "C", "g", "G", "u", "U"}

CtrlShiftCases ==
    {"save_pdf", "screenshot", "copy_text", "load_clipboard", "copy_url"}

\* C2: a key event for P, S, C, G or U whose modifiers do not hold both Ctrl
\* and Shift never runs save-PDF, screenshot, copy-text, load-from-clipboard
\* or copy-URL, and with Shift alone it is passed through unhandled.
C2_CtrlShiftNeedsBoth ==
    [][ /\ \A e \in GdkEvents :
              (e.key \in CtrlShiftLetters /\ ~({"ctrl", "shift"} \subseteq e.mods)
                 /\ GtkOnKey(e))
              => /\ last'.h \notin CtrlShiftCases
                 /\ e.mods = {"shift"} => last'.ret = "False"
        /\ \A e \in QtEvents :
              (e.key \in CtrlShiftLetters /\ ~({"ctrl", "shift"} \subseteq e.mods)
                 /\ QtOnKey(e))
              => /\ last'.h \notin CtrlShiftCases
                 /\ e.mods = {"shift"} => last'.ret = "False" ]_vars

\* the text is non-empty and starts with http://, https://, ftp:// or file://
UrlShaped(text) ==
    /\ text # PyNone /\ text # Nothing /\ text # <<>>
    /\ \/ StartsWith(text, <<"h","t","t","p",":","/","/">>)
       \/ StartsWith(text, <<"h","t","t","p","s",":","/","/">>)
       \/ StartsWith(text, <<"f","t","p",":","/","/">>)
       \/ StartsWith(text, <<"f","i","l","e",":","/","/">>)

\* C3: Ctrl+G and Ctrl+Shift+G select the tmux and the clipboard case; the
\* case loads the text read exactly when it is URL-shaped, otherwise it
\* issues no load and leaves the page, the find term and the zoom as they
\* were; the event is handled either way.
C3_LoadIffUrlShaped ==
    /\ GtkCase([key |-> "g", mods |-> {"ctrl"}]) = "load_tmux"
    /\ QtCase([key |-> "G", mods |-> {"ctrl"}]) = "load_tmux"
    /\ GtkCase([key |-> "G", mods |-> {"ctrl", "shift"}]) = "load_clipboard"
    /\ QtCase([key |-> "G", mods |-> {"ctrl", "shift"}]) = "load_clipboard"
    /\ KeyRan(last, {"load_tmux", "load_clipboard"}) =>
          /\ last.ret = "True"
          /\ IF UrlShaped(last.read)
             THEN last.load = last.read /\ uri = last.read
             ELSE /\ last.load = Nothing
                  /\ changed \cap {"uri", "find_text", "find_ctl", "zoom"} = {}

\* C3 witness: the tmux buffer held a near miss of a URL and was ignored
C3_Witness ==
    /\ KeyRan(last, {"load_tmux"})
    /\ last.read = U_near
    /\ last.load = Nothing

\* C4: Ctrl+B selects the bookmark case, and when the bookmarks file does
\* not exist the case starts no dmenu, issues no load and changes neither
\* the find term, the pending URL nor anything else of the state.
C4_MissingBookmarksAbort ==
    /\ GtkCase([key |-> "b", mods |-> {"ctrl"}]) = "bookmark"
    /\ QtCase([key |-> "B", mods |-> {"ctrl"}]) = "bookmark"
    /\ (KeyRan(last, {"bookmark"}) /\ last.nofile) =>
          /\ ~last.dmenu
          /\ last.load = Nothing
          /\ changed = {}

\* C4 witness: Ctrl+B ran without a bookmarks file
C4_Witness == KeyRan(last, {"bookmark"}) /\ last.nofile /\ ~last.dmenu

\* C5: start-up does not fail, whatever DBROWSER_MEMORY_LIMIT and
\* DBROWSER_SIZE hold.
C5_StartupNeverFails == boot.pc # "crashed"

\* C6: the find term changes only at a Ctrl+F whose prompt result is
\* non-empty, to that result; a cancelled or empty Ctrl+F leaves it, as does
\* every other handler; and find-next and find-previous search for the term
\* in the slot.
C6_FindTermSingleSlot ==
    /\ GtkCase([key |-> "f", mods |-> {"ctrl"}]) = "find"
    /\ QtCase([key |-> "F", mods |-> {"ctrl"}]) = "find"
    /\ "find_text" \in changed =>
          KeyRan(last, {"find"}) /\ last.read # <<>>
    /\ KeyRan(last, {"find"}) =>
          IF last.read # <<>>
          THEN find_text = last.read /\ last.search = last.read
          ELSE "find_text" \notin changed /\ last.search = Nothing
    /\ KeyRan(last, {"find_next", "find_prev"}) =>
          /\ last.search # Nothing => last.search = find_text
          /\ find_text # <<>> => last.search = find_text

\* C6 witness: find-next searched for a term entered at an earlier Ctrl+F
C6_Witness ==
    /\ KeyRan(last, {"find_next", "find_prev"})
    /\ find_text # <<>>
    /\ last.search = find_text

\* C7: try_load_url never gives the start URL to web.load after a
\* navigation has been started.
C7_NoStartLoadAfterNavigation ==
    ~(last.h = "try_load_url" /\ last.load # Nothing /\ last.late)

\* C8: a Ctrl+0 key event selects the zoom-reset case in both shells, no
\* earlier case of the chain taking it, and the zoom-reset case leaves the
\* zoom level at 1.0 whatever it was.
C8_CtrlZeroResetsZoom ==
    /\ GtkCase([key |-> "0", mods |-> {"ctrl"}]) = "zoom_reset"
    /\ QtCase([key |-> "0", mods |-> {"ctrl"}]) = "zoom_reset"
    /\ KeyRan(last, {"zoom_reset"}) => zoom = 10

\* C8 witness: the reset case ran and the zoom is 1.0
C8_Witness == KeyRan(last, {"zoom_reset"}) /\ zoom = 10

\* C9: for save-as-HTML and screenshot the destination is computed only
\* once the document.title request has completed, and the file write and
\* the 'Saved ...' report happen only once the save or snapshot request
\* has completed.
C9_ReportAfterCompletion ==
    /\ last.dest \in {"html", "png"} => last.on \in {"html_title", "png_title"}
    /\ (last.wrote = "html" \/ last.report = "Saved HTML") => last.on = "html_save"
    /\ (last.wrote = "png" \/ last.report = "Saved screenshot") =>
          (last.on = "png_snapshot" \/ last.sync = "grab")

\* C10: a non-empty DBROWSER_CACHE_DIR is the engine's disk cache
\* directory, user-expanded, whatever the other variables hold.
C10_CacheDirSelected ==
    (boot.pc = "mainloop" /\ "cache_dir" \in DOMAIN boot /\ Truthy(boot.cache_dir))
        => boot.disk_cache_dir = expanduser(boot.cache_dir)

\* C11: in browser.py's final settings the page cache is disabled whenever
\* DBROWSER_LOW_MEM is set, whatever the other variables hold; and with
\* DBROWSER_LOW_MEM unset and DBROWSER_FAST set the page cache and DNS
\* prefetching are enabled.
C11_LowMemDisablesPageCache ==
    (shell = "gtk" /\ boot.pc = "mainloop" /\ "low_mem" \in DOMAIN boot) =>
        /\ Truthy(boot.low_mem) => ~boot.settings.page_cache
        /\ (~Truthy(boot.low_mem) /\ Truthy(boot.fast)) =>
              boot.settings.page_cache /\ boot.settings.dns_prefetching

\* the first arguments that ask for the help text
HelpArgs == { <<"-", "h">>, <<"-", "-", "h", "e", "l", "p">> }

\* C12: without an argument, or with -h or --help first, the program prints
\* the help and exits with status 0, having configured no context, parsed no
\* size, created no view or settings, connected nothing, started no timer
\* and issued no navigation; with any other first argument it goes on with
\* that argument as its address, which browser.py gives to the view.
C12_HelpOrStartUrl ==
    "argv" \in DOMAIN boot =>
        /\ (boot.argv = PyNone \/ boot.argv \in HelpArgs) =>
              boot.pc \in {"start", "exited"}
        /\ boot.pc = "exited" =>
              /\ boot.argv = PyNone \/ boot.argv \in HelpArgs
              /\ boot.helped /\ boot.exit = "0"
              /\ boot.url = Nothing
              /\ boot.ctx = "" /\ boot.view_ctx = "" /\ boot.download_ctx = ""
              /\ boot.settings = NoSettings /\ boot.win_size = <<>>
              /\ ~timer_on /\ ~nav_started /\ uri = <<>> /\ ~shown /\ ~running
        /\ boot.pc \notin {"start", "exited"} =>
              boot.url = boot.argv /\ ~boot.helped
        /\ (boot.pc = "mainloop" /\ shell = "gtk") => uri = boot.argv

\* C12 witness: --help ended the program at the argument test
C12_Witness ==
    /\ boot.pc = "exited"
    /\ boot.argv = <<"-", "-", "h", "e", "l", "p">>
    /\ boot.exit = "0"

\* C13: in browser.py the context that was given the memory limit, the cache
\* model, the cookie policy and the process model is the context of the view
\* and the context on_download is connected to, with DBROWSER_MEMORY_LIMIT
\* unset and with it set.
C13_OneEngineContext ==
    (shell = "gtk" /\ boot.pc = "mainloop" /\ "ctx" \in DOMAIN boot) =>
        /\ boot.cookies = "NO_THIRD_PARTY"
        /\ boot.view_ctx = boot.ctx
        /\ boot.download_ctx = boot.ctx

\* C16: browser.py's final settings have plugins, hyperlink auditing, file
\* access and universal access from file URLs, JavaScript clipboard access
\* and automatic JavaScript windows disabled for every environment; WebGL
\* is enabled exactly when DBROWSER_WEBGL is non-empty and JavaScript is
\* disabled exactly when DBROWSER_NO_JS is non-empty.
C16_RestrictiveDefaults ==
    (shell = "gtk" /\ boot.pc = "mainloop" /\ "settings" \in DOMAIN boot) =>
        LET s == boot.settings IN
        /\ ~s.plugins /\ ~s.hyperlink_auditing
        /\ ~s.file_access /\ ~s.universal_access
        /\ ~s.js_clipboard /\ ~s.js_open_windows
        /\ s.webgl <=> (boot.enable_webgl # PyNone /\ boot.enable_webgl # <<>>)
        /\ ~s.javascript <=> (boot.no_js # PyNone /\ boot.no_js # <<>>)

\* C16 witness: DBROWSER_NO_JS=0 with DBROWSER_WEBGL, DBROWSER_FAST and
\* DBROWSER_LOW_MEM set: JavaScript off, WebGL on, the rest still disabled
C16_Witness ==
    /\ shell = "gtk" /\ boot.pc = "mainloop"
    /\ boot.no_js = <<"0">> /\ ~boot.settings.javascript
    /\ boot.enable_webgl = <<"1">> /\ boot.settings.webgl
    /\ boot.fast = <<"1">> /\ boot.low_mem = <<"1">>
    /\ ~boot.settings.plugins

\* the callbacks that set the window title
TitleCallbacks ==
    {"on_title_changed", "on_load_started", "on_load_progress", "on_load_finished"}

\* C14: after every title-change, load-started, load-progress and
\* load-finished callback the window title ends in the percentage exactly
\* when the load progress is below 100%, and the percentage is that progress.
C14_TitleTracksProgress ==
    (last.kind = "callback" /\ last.h \in TitleCallbacks) =>
        /\ win_title.suffix <=> progress < 100
        /\ win_title.suffix => win_title.pct = progress

\* C15: Ctrl+L and Ctrl+B (its links file read) start dmenu and load its
\* output, white space trimmed, whenever that is non-empty, URL-shaped or
\* not, and load nothing when it is empty; and a key event for L that
\* carries Ctrl never runs go-forward.
C15_DmenuLoadsUnvalidated ==
    [][ /\ GtkCase([key |-> "l", mods |-> {"ctrl"}]) = "change_url"
        /\ QtCase([key |-> "L", mods |-> {"ctrl"}]) = "change_url"
        /\ (/\ last'.kind = "key"
            /\ \/ last'.h = "change_url"
               \/ last'.h = "bookmark" /\ ~last'.nofile
            /\ last' # last) =>
              /\ last'.dmenu
              /\ IF last'.read # <<>>
                 THEN last'.load = last'.read /\ uri' = last'.read
                 ELSE last'.load = Nothing /\ uri' = uri
        /\ \A e \in GdkEvents :
              (e.key = "l" /\ "ctrl" \in e.mods /\ GtkOnKey(e))
              => last'.h # "forward"
        /\ \A e \in QtEvents :
              (e.key = "L" /\ "ctrl" \in e.mods /\ QtOnKey(e))
              => last'.h # "forward" ]_vars

\* an entry of the keybinding table of show_help: the key event of each
\* shell with exactly the documented modifiers, and the action documented
Binding(gdk_key, qt_key, mods, action) ==
    [ gdk |-> [key |-> gdk_key, mods |-> mods],
      qt |-> [key |-> qt_key, mods |-> mods], action |-> action ]

KeyTable ==
    { Binding("F1", "F1", {}, "help"),
      Binding("q", "Q", {"ctrl"}, "quit"),
      Binding("F5", "F5", {}, "reload"),
      Binding("r", "R", {"ctrl"}, "reload"),
      Binding("F12", "F12", {}, "inspector"),
      Binding("p", "P", {"ctrl"}, "print"),
      Binding("P", "P", {"ctrl", "shift"}, "save_pdf"),
      Binding("s", "S", {"ctrl"}, "save_html"),
      Binding("S", "S", {"ctrl", "shift"}, "screenshot"),
      Binding("l", "L", {"ctrl"}, "change_url"),
      Binding("b", "B", {"ctrl"}, "bookmark"),
      Binding("g", "G", {"ctrl"}, "load_tmux"),
      Binding("G", "G", {"ctrl", "shift"}, "load_clipboard"),
      Binding("Left", "Left", {"alt"}, "back"),
      Binding("h", "H", {"alt"}, "back"),
      Binding("comma", "Comma", {"alt"}, "back"),
      Binding("Right", "Right", {"alt"}, "forward"),
      Binding("l", "L", {"alt"}, "forward"),
      Binding("period", "Period", {"alt"}, "forward"),
      Binding("j", "J", {"alt"}, "scroll_down"),
      Binding("k", "K", {"alt"}, "scroll_up"),
      Binding("u", "U", {"alt"}, "page_down"),
      Binding("i", "I", {"alt"}, "page_up"),
      Binding("C", "C", {"ctrl", "shift"}, "copy_text"),
      Binding("U", "U", {"ctrl", "shift"}, "copy_url"),
      Binding("plus", "Plus", {"ctrl"}, "zoom_in"),
      Binding("minus", "Minus", {"ctrl"}, "zoom_out"),
      Binding("0", "0", {"ctrl"}, "zoom_reset"),
      Binding("f", "F", {"ctrl"}, "find"),
      Binding("n", "N", {"ctrl"}, "find_next"),
      Binding("N", "N", {"ctrl", "shift"}, "find_prev") }

TableActions == { t.action : t \in KeyTable }

\* C17: every entry of the keybinding table selects its documented action
\* in browser.py and in qtbrowser.py; and whichever shell ran it, the action
\* reports the event the same way (handled, but for Ctrl+B without its
\* links file) and has the same effect on the find term: Ctrl+F with a
\* non-empty answer replaces it with the answer, nothing else changes it.
C17_ShellsAgreeOnTable ==
    /\ \A t \in KeyTable :
          /\ t.gdk \in GdkEvents /\ t.qt \in QtEvents
          /\ GtkCase(t.gdk) = t.action
          /\ QtCase(t.qt) = t.action
    /\ KeyRan(last, TableActions) =>
          /\ last.ret = IF last.h = "bookmark" /\ last.nofile THEN "None" ELSE "True"
          /\ "find_text" \in changed =>
                (last.h = "find" /\ last.read \notin {<<>>, Nothing})
          /\ (last.h = "find" /\ last.read \notin {<<>>, Nothing}) =>
                find_text = last.read /\ last.search = last.read

\* C17 witness: qtbrowser.py ran find-next with no find term and handled it
C17_Witness ==
    /\ shell = "qt"
    /\ KeyRan(last, {"find_next"})
    /\ find_text = <<>>
    /\ last.ret = "True"

====
